---- MODULE Spec2Model ----
(***************************************************************************)
(* Model of the TokenRelease smart contract (src/src/token_release.rs).    *)
(* Every endpoint is a pure operator from a storage record to a result     *)
(* record [ok, st]; a failed call returns the storage it was given (the    *)
(* host rolls a failed call back).  One action per endpoint commits the    *)
(* successful call to the variables; a failed call is a stuttering step.  *)
(***************************************************************************)
EXTENDS Integers, Sequences, FiniteSets, TLC

VARIABLES
    setup_period_status,     \* storage "setupPeriodStatus"
    activation_timestamp,    \* storage "activationTimestamp"
    token_total_supply,      \* storage "tokenTotalSupply"
    group_schedule,          \* storage "groupSchedule": <<>> (empty) or <<ScheduleType>>
    users_in_group,          \* storage "usersInGroup": u64 per group
    user_groups,             \* storage "userGroups": Vec of group identifiers per address
    claimed_balance,         \* storage "claimedBalance": BigUint per address
    address_change_request,  \* storage "addressChangeRequest": address or NoAddress
    block_timestamp,         \* host: current block timestamp
    mints,                   \* host: amounts minted by esdt_local_mint, in order
    sent,                    \* host: total amount transferred out by send().direct
    overflow_checks          \* build: TRUE when u64 overflow panics, FALSE when it wraps

vars == <<setup_period_status, activation_timestamp, token_total_supply,
          group_schedule, users_in_group, user_groups, claimed_balance,
          address_change_request, block_timestamp, mints, sent,
          overflow_checks>>

----------------------------------------------------------------------------
(* Bounds and input sets *)

MaxElapsed == 2      \* the clock runs up to activation_timestamp + MaxElapsed
MaxMints == 2        \* at most this many successful end_setup_period calls
FarElapsed == 1000   \* a time far after the end of every small schedule

DeployTimestamps == {1}   \* block timestamps the contract is deployed at

Addresses == {"alice", "bob"}
NoAddress == "none"
Groups == {"g1", "g2"}
Roles == {"Mint", "Burn"}

\* TLC integers are 32 bits wide.  A u64 argument of the form
\* q * 2^62 + r, with q in 0..3 and r < 2^28, is kept as q * U64Limb + r:
\* bits 28..61 are zero in every u64 argument drawn here and are left out.
\* The order of the values is the order of their encodings.
U64Limb == 2^28
U64Hi(n) == n \div U64Limb
U64Lo(n) == n % U64Limb

ScheduleType(total, fixed, percent, unlock, period, ticks) ==
    [group_total_amount |-> total, is_fixed_amount |-> fixed,
     group_unlock_percent |-> percent, period_unlock_amount |-> unlock,
     release_period |-> period, release_ticks |-> ticks]

\* The arguments add_group is called with: schedules the endpoint accepts
\* and schedules it has to reject.
ScheduleInputs ==
    { ScheduleType(4, TRUE, 0, 2, 1, 2),
      ScheduleType(3, FALSE, 50, 0, 1, 2),
      ScheduleType(2, TRUE, 0, 2, 0, 1),
      ScheduleType(0, TRUE, 0, 0, 1, 1),
      ScheduleType(4, TRUE, 0, 2, 1, 0),
      ScheduleType(4, TRUE, 0, 3, 1, 2),
      ScheduleType(3, FALSE, 30, 0, 1, 2),
      ScheduleType(25, FALSE, 4, 0, 1, U64Limb + 25) }   \* ticks = 2^62 + 25

----------------------------------------------------------------------------
(* The storage record the endpoints work on *)

Storage ==
    [setup_period_status |-> setup_period_status,
     activation_timestamp |-> activation_timestamp,
     token_total_supply |-> token_total_supply,
     group_schedule |-> group_schedule,
     users_in_group |-> users_in_group,
     user_groups |-> user_groups,
     claimed_balance |-> claimed_balance,
     address_change_request |-> address_change_request,
     block_timestamp |-> block_timestamp,
     mints |-> mints,
     sent |-> sent,
     overflow_checks |-> overflow_checks]

Ok(st) == [ok |-> TRUE, st |-> st]
Fail(st) == [ok |-> FALSE, st |-> st]

RECURSIVE SumSeq(_)
SumSeq(s) == IF s = <<>> THEN 0 ELSE Head(s) + SumSeq(Tail(s))

\* Balance of the token held by the contract: what was minted to it minus
\* what it has sent.
contract_balance(st) == SumSeq(st.mints) - st.sent

Contains(list, x) == \E i \in 1..Len(list) : list[i] = x

----------------------------------------------------------------------------
(* Private functions *)

\* Mutant: the phase check is dropped.
require_setup_period_live_NoCheck(st) == TRUE

require_setup_period_live(st) == st.setup_period_status

require_setup_period_ended(st) == ~st.setup_period_status

\* Mutant: only the Mint role is required.
require_local_burn_and_mint_roles_set_MintOnly(roles) == "Mint" \in roles

\* roles: the answer of the host to get_esdt_local_roles
require_local_burn_and_mint_roles_set(roles) ==
    /\ "Mint" \in roles
    /\ "Burn" \in roles

\* A u64 is kept as the integer congruent to it modulo 2^64 that is nearest
\* to zero: -k stands for 2^64 - k.  IsWrapped tells the values at the top of
\* the u64 range from the small ones.
IsWrapped(n) == n < 0

\* u64 += 1 / -= 1 on the member counter.  Leaving the u64 range (0 - 1, or
\* (2^64 - 1) + 1) panics when the build checks overflow and wraps otherwise.
update_users_in_group(st, group_identifier, user_is_added) ==
    LET users_in_group_no == st.users_in_group[group_identifier]
        overflows == IF user_is_added THEN users_in_group_no = -1
                                      ELSE users_in_group_no = 0
        updated == IF user_is_added THEN users_in_group_no + 1
                                    ELSE users_in_group_no - 1
    IN  IF overflows /\ st.overflow_checks
        THEN Fail(st)
        ELSE Ok([st EXCEPT !.users_in_group[group_identifier] = updated])

\* BigUint / BigUint::from(u64) for a dividend far below 2^64: the quotient
\* by a wrapped divisor is 0.  Division by zero aborts the call.
BigUintDivU64(x, n) ==
    IF n = 0 THEN [ok |-> FALSE, value |-> 0]
    ELSE IF IsWrapped(n) THEN [ok |-> TRUE, value |-> 0]
    ELSE [ok |-> TRUE, value |-> x \div n]

\* Mutant: a schedule whose ticks have all passed releases nothing.
group_claimable_Expires(st, group_identifier) ==
    IF st.group_schedule[group_identifier] = <<>>
    THEN [ok |-> FALSE, value |-> 0]
    ELSE
    LET schedule_type == st.group_schedule[group_identifier][1]
        users_in_group_no == st.users_in_group[group_identifier]
        time_passed == st.block_timestamp - st.activation_timestamp
    IN  IF schedule_type.release_period = 0 \/ time_passed < 0
        THEN [ok |-> FALSE, value |-> 0]
        ELSE
        LET raw_periods == time_passed \div schedule_type.release_period
            periods_passed == IF raw_periods > schedule_type.release_ticks
                              THEN 0
                              ELSE raw_periods
        IN  IF periods_passed > 0
            THEN IF schedule_type.is_fixed_amount
                 THEN BigUintDivU64(
                        periods_passed * schedule_type.period_unlock_amount,
                        users_in_group_no)
                 ELSE BigUintDivU64(
                        (periods_passed * schedule_type.group_total_amount
                           * schedule_type.group_unlock_percent) \div 100,
                        users_in_group_no)
            ELSE [ok |-> TRUE, value |-> 0]

\* Mutant: the percentage of the total is taken, and truncated, before it
\* is multiplied by the periods.
group_claimable_PercentFirst(st, group_identifier) ==
    IF st.group_schedule[group_identifier] = <<>>
    THEN [ok |-> FALSE, value |-> 0]
    ELSE
    LET schedule_type == st.group_schedule[group_identifier][1]
        users_in_group_no == st.users_in_group[group_identifier]
        time_passed == st.block_timestamp - st.activation_timestamp
    IN  IF schedule_type.release_period = 0 \/ time_passed < 0
        THEN [ok |-> FALSE, value |-> 0]
        ELSE
        LET raw_periods == time_passed \div schedule_type.release_period
            periods_passed == IF raw_periods > schedule_type.release_ticks
                              THEN schedule_type.release_ticks
                              ELSE raw_periods
        IN  IF periods_passed > 0
            THEN IF schedule_type.is_fixed_amount
                 THEN BigUintDivU64(
                        periods_passed * schedule_type.period_unlock_amount,
                        users_in_group_no)
                 ELSE BigUintDivU64(
                        periods_passed *
                          ((schedule_type.group_total_amount
                             * schedule_type.group_unlock_percent) \div 100),
                        users_in_group_no)
            ELSE [ok |-> TRUE, value |-> 0]

\* One iteration of the loop of calculate_claimable_tokens: the amount the
\* group adds to claimable_amount, or the abort of the call (the schedule
\* of a removed group does not decode; a zero release_period or a zero
\* member counter is a division by zero).  The clock never runs backwards,
\* so time_passed < 0 does not occur in a reachable state.
group_claimable(st, group_identifier) ==
    IF st.group_schedule[group_identifier] = <<>>
    THEN [ok |-> FALSE, value |-> 0]
    ELSE
    LET schedule_type == st.group_schedule[group_identifier][1]
        users_in_group_no == st.users_in_group[group_identifier]
        time_passed == st.block_timestamp - st.activation_timestamp
    IN  IF schedule_type.release_period = 0 \/ time_passed < 0
        THEN [ok |-> FALSE, value |-> 0]
        ELSE
        LET raw_periods == time_passed \div schedule_type.release_period
            periods_passed == IF raw_periods > schedule_type.release_ticks
                              THEN schedule_type.release_ticks
                              ELSE raw_periods
        IN  IF periods_passed > 0
            THEN IF schedule_type.is_fixed_amount
                 THEN BigUintDivU64(
                        periods_passed * schedule_type.period_unlock_amount,
                        users_in_group_no)
                 ELSE BigUintDivU64(
                        (periods_passed * schedule_type.group_total_amount
                           * schedule_type.group_unlock_percent) \div 100,
                        users_in_group_no)
            ELSE [ok |-> TRUE, value |-> 0]

RECURSIVE claimable_of_groups(_, _)
claimable_of_groups(st, address_groups) ==
    IF address_groups = <<>>
    THEN [ok |-> TRUE, value |-> 0]
    ELSE LET first == group_claimable(st, Head(address_groups))
             rest == claimable_of_groups(st, Tail(address_groups))
         IN  [ok |-> first.ok /\ rest.ok, value |-> first.value + rest.value]

calculate_claimable_tokens(st, address) ==
    claimable_of_groups(st, st.user_groups[address])

\* send().direct: the transfer aborts the call when the contract holds less
\* of the token than the amount.
send_tokens(st, amount) ==
    IF amount > contract_balance(st)
    THEN Fail(st)
    ELSE Ok([st EXCEPT !.sent = @ + amount])

mint_all_tokens(st, amount) == [st EXCEPT !.mints = Append(@, amount)]

----------------------------------------------------------------------------
(* Endpoints *)

\* (a as u64) * b for a u8 a and an encoded u64 b: the product as the build
\* without overflow checks leaves it (modulo 2^64), and whether it left the
\* u64 range.
U64Mul(a, b) ==
    [overflow |-> a * U64Hi(b) >= 4,
     value |-> ((a * U64Hi(b)) % 4) * U64Limb + a * U64Lo(b)]

\* BigUint * BigUint::from(u64) == BigUint: exact, no width.  A product with
\* a factor of 2^62 or more is above every amount drawn here.
BigUintProductIs(a, b, c) ==
    IF a = 0 THEN c = 0
    ELSE IF U64Hi(b) > 0 THEN FALSE
    ELSE a * b = c

add_group(st, group_identifier, schedule) ==
    IF ~require_setup_period_live(st) THEN Fail(st)
    ELSE IF st.group_schedule[group_identifier] # <<>> THEN Fail(st)
    ELSE IF ~(schedule.release_ticks > 0) THEN Fail(st)
    ELSE IF ~(schedule.group_total_amount > 0) THEN Fail(st)
    ELSE IF schedule.is_fixed_amount
            /\ ~BigUintProductIs(schedule.period_unlock_amount,
                                 schedule.release_ticks,
                                 schedule.group_total_amount)
         THEN Fail(st)
    ELSE IF ~schedule.is_fixed_amount
            /\ U64Mul(schedule.group_unlock_percent,
                      schedule.release_ticks).overflow
            /\ st.overflow_checks
         THEN Fail(st)
    ELSE IF ~schedule.is_fixed_amount
            /\ U64Mul(schedule.group_unlock_percent,
                      schedule.release_ticks).value # 100
         THEN Fail(st)
    ELSE Ok([st EXCEPT
               !.token_total_supply = @ + schedule.group_total_amount,
               !.group_schedule[group_identifier] = <<schedule>>])

\* Mutant: the supply keeps the total of the removed group.
remove_group_KeepsSupply(st, group_identifier) ==
    IF ~require_setup_period_live(st) THEN Fail(st)
    ELSE IF st.group_schedule[group_identifier] = <<>> THEN Fail(st)
    ELSE Ok([st EXCEPT !.group_schedule[group_identifier] = <<>>,
                       !.users_in_group[group_identifier] = 0])

remove_group(st, group_identifier) ==
    IF ~require_setup_period_live(st) THEN Fail(st)
    ELSE IF st.group_schedule[group_identifier] = <<>> THEN Fail(st)
    ELSE LET group == st.group_schedule[group_identifier][1]
         IN  IF st.token_total_supply < group.group_total_amount
             THEN Fail(st)
             ELSE Ok([st EXCEPT
                        !.token_total_supply = @ - group.group_total_amount,
                        !.group_schedule[group_identifier] = <<>>,
                        !.users_in_group[group_identifier] = 0])

\* Mutant: the group is pushed and counted without looking for it in the
\* list of the address.
add_user_group_NoLookup(st, address, group_identifier) ==
    IF ~require_setup_period_live(st) THEN Fail(st)
    ELSE IF st.group_schedule[group_identifier] = <<>> THEN Fail(st)
    ELSE LET counted == update_users_in_group(st, group_identifier, TRUE)
         IN  IF ~counted.ok THEN Fail(st)
             ELSE Ok([counted.st EXCEPT !.user_groups[address] =
                         Append(@, group_identifier)])

add_user_group(st, address, group_identifier) ==
    IF ~require_setup_period_live(st) THEN Fail(st)
    ELSE IF st.group_schedule[group_identifier] = <<>> THEN Fail(st)
    ELSE IF st.user_groups[address] # <<>>
         THEN IF ~Contains(st.user_groups[address], group_identifier)
              THEN LET counted == update_users_in_group(st, group_identifier, TRUE)
                   IN  IF ~counted.ok THEN Fail(st)
                       ELSE Ok([counted.st EXCEPT !.user_groups[address] =
                                   Append(@, group_identifier)])
              ELSE Ok(st)
         ELSE LET counted == update_users_in_group(st, group_identifier, TRUE)
              IN  IF ~counted.ok THEN Fail(st)
                  ELSE Ok([counted.st EXCEPT !.user_groups[address] =
                              <<group_identifier>>])

RECURSIVE remove_from_groups(_, _)
remove_from_groups(st, address_groups) ==
    IF address_groups = <<>> THEN Ok(st)
    ELSE LET counted == update_users_in_group(st, Head(address_groups), FALSE)
         IN  IF ~counted.ok THEN counted
             ELSE remove_from_groups(counted.st, Tail(address_groups))

remove_user(st, address) ==
    IF ~require_setup_period_live(st) THEN Fail(st)
    ELSE IF st.user_groups[address] = <<>> THEN Fail(st)
    ELSE LET counted == remove_from_groups(st, st.user_groups[address])
         IN  IF ~counted.ok THEN Fail(st)
             ELSE Ok([counted.st EXCEPT !.user_groups[address] = <<>>,
                                        !.claimed_balance[address] = 0])

request_address_change(st, caller, new_address) ==
    IF ~require_setup_period_ended(st) THEN Fail(st)
    ELSE Ok([st EXCEPT !.address_change_request[caller] = new_address])

approve_address_change(st, user_address) ==
    IF ~require_setup_period_ended(st) THEN Fail(st)
    ELSE IF st.address_change_request[user_address] = NoAddress THEN Fail(st)
    ELSE LET new_address == st.address_change_request[user_address]
             user_current_groups == st.user_groups[user_address]
             user_claimed_balance == st.claimed_balance[user_address]
             saved == [st EXCEPT
                         !.user_groups[new_address] = user_current_groups,
                         !.claimed_balance[new_address] = user_claimed_balance]
         IN  Ok([saved EXCEPT
                   !.user_groups[user_address] = <<>>,
                   !.claimed_balance[user_address] = 0,
                   !.address_change_request[user_address] = NoAddress])

\* Mutant: the flag is toggled instead of cleared.
end_setup_period_Toggles(st, roles) ==
    IF ~require_local_burn_and_mint_roles_set(roles) THEN Fail(st)
    ELSE LET closed == [st EXCEPT !.setup_period_status = ~@]
         IN  Ok(mint_all_tokens(closed, closed.token_total_supply))

end_setup_period(st, roles) ==
    IF ~require_local_burn_and_mint_roles_set(roles) THEN Fail(st)
    ELSE LET closed == [st EXCEPT !.setup_period_status = FALSE]
         IN  Ok(mint_all_tokens(closed, closed.token_total_supply))

\* Mutant: the claimed balance grows by the total claimable amount instead
\* of the amount transferred.
claim_tokens_AddsTotal(st, caller) ==
    IF ~require_setup_period_ended(st) THEN Fail(st)
    ELSE LET total_claimable_amount == calculate_claimable_tokens(st, caller)
             current_balance == st.claimed_balance[caller]
         IN  IF ~total_claimable_amount.ok THEN Fail(st)
             ELSE IF ~(total_claimable_amount.value > current_balance)
             THEN Fail(st)
             ELSE LET current_claimable_amount ==
                          total_claimable_amount.value - current_balance
                      transferred == send_tokens(st, current_claimable_amount)
                  IN  IF ~transferred.ok THEN Fail(st)
                      ELSE Ok([transferred.st EXCEPT
                                 !.claimed_balance[caller] =
                                    current_balance + total_claimable_amount.value])

\* Mutant: the requirement is >= instead of >.
claim_tokens_AcceptsEqual(st, caller) ==
    IF ~require_setup_period_ended(st) THEN Fail(st)
    ELSE LET total_claimable_amount == calculate_claimable_tokens(st, caller)
             current_balance == st.claimed_balance[caller]
         IN  IF ~total_claimable_amount.ok THEN Fail(st)
             ELSE IF ~(total_claimable_amount.value >= current_balance)
             THEN Fail(st)
             ELSE LET current_claimable_amount ==
                          total_claimable_amount.value - current_balance
                      transferred == send_tokens(st, current_claimable_amount)
                  IN  IF ~transferred.ok THEN Fail(st)
                      ELSE Ok([transferred.st EXCEPT
                                 !.claimed_balance[caller] =
                                    current_balance + current_claimable_amount])

claim_tokens(st, caller) ==
    IF ~require_setup_period_ended(st) THEN Fail(st)
    ELSE LET total_claimable_amount == calculate_claimable_tokens(st, caller)
             current_balance == st.claimed_balance[caller]
         IN  IF ~total_claimable_amount.ok THEN Fail(st)
             ELSE IF ~(total_claimable_amount.value > current_balance)
             THEN Fail(st)
             ELSE LET current_claimable_amount ==
                          total_claimable_amount.value - current_balance
                      transferred == send_tokens(st, current_claimable_amount)
                  IN  IF ~transferred.ok THEN Fail(st)
                      ELSE Ok([transferred.st EXCEPT
                                 !.claimed_balance[caller] =
                                    current_balance + current_claimable_amount])

\* View: the amount a claim by the caller would transfer; aborts as
\* calculate_claimable_tokens does.
verify_claimable_tokens(st, caller) ==
    LET total_claimable_amount == calculate_claimable_tokens(st, caller)
        current_balance == st.claimed_balance[caller]
    IN  IF ~total_claimable_amount.ok THEN [ok |-> FALSE, value |-> 0]
        ELSE IF total_claimable_amount.value > current_balance
        THEN [ok |-> TRUE, value |-> total_claimable_amount.value - current_balance]
        ELSE [ok |-> TRUE, value |-> 0]

----------------------------------------------------------------------------
(* State machine *)

Commit(st) ==
    /\ setup_period_status' = st.setup_period_status
    /\ activation_timestamp' = st.activation_timestamp
    /\ token_total_supply' = st.token_total_supply
    /\ group_schedule' = st.group_schedule
    /\ users_in_group' = st.users_in_group
    /\ user_groups' = st.user_groups
    /\ claimed_balance' = st.claimed_balance
    /\ address_change_request' = st.address_change_request
    /\ block_timestamp' = st.block_timestamp
    /\ mints' = st.mints
    /\ sent' = st.sent
    /\ overflow_checks' = st.overflow_checks

\* init: the setup period starts open, the clock origin is the block
\* timestamp of the deployment, every other storage key is empty.
Init ==
    /\ setup_period_status = TRUE
    /\ activation_timestamp \in DeployTimestamps
    /\ block_timestamp = activation_timestamp
    /\ token_total_supply = 0
    /\ group_schedule = [g \in Groups |-> <<>>]
    /\ users_in_group = [g \in Groups |-> 0]
    /\ user_groups = [a \in Addresses |-> <<>>]
    /\ claimed_balance = [a \in Addresses |-> 0]
    /\ address_change_request = [a \in Addresses |-> NoAddress]
    /\ mints = <<>>
    /\ sent = 0
    /\ overflow_checks \in BOOLEAN

\* A call that fails leaves every variable as it was: it is a stuttering
\* step.  The actions are the calls that succeed.
AddGroup ==
    \E g \in Groups, s \in ScheduleInputs :
        /\ add_group(Storage, g, s).ok
        /\ Commit(add_group(Storage, g, s).st)

RemoveGroup ==
    \E g \in Groups :
        /\ remove_group(Storage, g).ok
        /\ Commit(remove_group(Storage, g).st)

AddUserGroup ==
    \E a \in Addresses, g \in Groups :
        /\ add_user_group(Storage, a, g).ok
        /\ Commit(add_user_group(Storage, a, g).st)

RemoveUser ==
    \E a \in Addresses :
        /\ remove_user(Storage, a).ok
        /\ Commit(remove_user(Storage, a).st)

RequestAddressChange ==
    \E a \in Addresses, n \in Addresses :
        /\ request_address_change(Storage, a, n).ok
        /\ Commit(request_address_change(Storage, a, n).st)

ApproveAddressChange ==
    \E a \in Addresses :
        /\ approve_address_change(Storage, a).ok
        /\ Commit(approve_address_change(Storage, a).st)

EndSetupPeriod ==
    \E roles \in SUBSET Roles :
        /\ Len(mints) < MaxMints
        /\ end_setup_period(Storage, roles).ok
        /\ Commit(end_setup_period(Storage, roles).st)

ClaimTokens ==
    \E a \in Addresses :
        /\ claim_tokens(Storage, a).ok
        /\ Commit(claim_tokens(Storage, a).st)

\* Host: a later block.
Tick ==
    /\ block_timestamp < activation_timestamp + MaxElapsed
    /\ block_timestamp' = block_timestamp + 1
    /\ UNCHANGED <<setup_period_status, activation_timestamp, token_total_supply,
                   group_schedule, users_in_group, user_groups, claimed_balance,
                   address_change_request, mints, sent,
                   overflow_checks>>

Next ==
    \/ AddGroup
    \/ RemoveGroup
    \/ AddUserGroup
    \/ RemoveUser
    \/ RequestAddressChange
    \/ ApproveAddressChange
    \/ EndSetupPeriod
    \/ ClaimTokens
    \/ Tick

Spec == Init /\ [][Next]_vars

StorageNext == Storage'

RECURSIVE Occurrences(_, _)
Occurrences(list, x) ==
    IF list = <<>> THEN 0
    ELSE (IF Head(list) = x THEN 1 ELSE 0) + Occurrences(Tail(list), x)

RECURSIVE SumOver(_, _)
SumOver(f, S) ==
    IF S = {} THEN 0
    ELSE LET x == CHOOSE y \in S : TRUE IN f[x] + SumOver(f, S \ {x})

\* total_amount of the stored schedule of a group, 0 when there is none
LiveTotal == [g \in Groups |->
                IF group_schedule[g] = <<>> THEN 0
                ELSE group_schedule[g][1].group_total_amount]

----------------------------------------------------------------------------
(* Properties *)

\* C1: the sum of all amounts transferred to addresses by claim never
\* exceeds token_total_supply.
C1_TransfersWithinSupply == sent <= token_total_supply

\* C2: for every address, the claimed balance never exceeds the amount
\* calculate_claimable_tokens computes for it at the current timestamp (an
\* address with a positive claimed balance has a defined claimable amount
\* at least as large).
C2_ClaimedWithinClaimable ==
    \A a \in Addresses :
        claimed_balance[a] > 0 =>
            /\ calculate_claimable_tokens(Storage, a).ok
            /\ claimed_balance[a] <= calculate_claimable_tokens(Storage, a).value

\* An address holds a claimed balance equal to its claimable amount after
\* the clock has advanced past the first period.
C2_Witness ==
    \E a \in Addresses :
        /\ claimed_balance[a] > 0
        /\ block_timestamp > activation_timestamp + 1
        /\ calculate_claimable_tokens(Storage, a).ok
        /\ claimed_balance[a] <= calculate_claimable_tokens(Storage, a).value

\* C3: the setup flag starts true and, once false, is false in every later
\* state.
C3_SetupOneWay ==
    /\ setup_period_status = TRUE
    /\ [][setup_period_status = FALSE => setup_period_status' = FALSE]_vars

\* end_setup_period has been called again after the setup period was closed.
C3_Witness == setup_period_status = FALSE /\ Len(mints) >= 2

\* Once the setup period is closed, every call of add_group, remove_group,
\* add_user_group and remove_user fails and returns the storage untouched.
C4_ClosedRejectsSetupCalls ==
    setup_period_status = FALSE =>
        /\ \A g \in Groups, sch \in ScheduleInputs :
               add_group(Storage, g, sch) = Fail(Storage)
        /\ \A g \in Groups : remove_group(Storage, g) = Fail(Storage)
        /\ \A a \in Addresses, g \in Groups :
               add_user_group(Storage, a, g) = Fail(Storage)
        /\ \A a \in Addresses : remove_user(Storage, a) = Fail(Storage)

\* While the setup period is open, every call of claim_tokens,
\* request_address_change and approve_address_change fails and returns the
\* storage untouched.
C4_OpenRejectsUserCalls ==
    setup_period_status = TRUE =>
        /\ \A a \in Addresses : claim_tokens(Storage, a) = Fail(Storage)
        /\ \A a \in Addresses, n \in Addresses :
               request_address_change(Storage, a, n) = Fail(Storage)
        /\ \A a \in Addresses : approve_address_change(Storage, a) = Fail(Storage)

\* C4: add_group, remove_group, add_user_group and remove_user succeed only
\* while the setup period is open and fail without a state change once it
\* is closed; claim_tokens, request_address_change and
\* approve_address_change succeed only once it is closed and fail without
\* a state change while it is open.  Hence schedules, member counters and
\* the supply never change after the close, and claimed balances, requests
\* and transfers never change before it.
C4_PhaseGating ==
    /\ [](C4_ClosedRejectsSetupCalls /\ C4_OpenRejectsUserCalls)
    /\ [][/\ (setup_period_status = FALSE =>
                 UNCHANGED <<group_schedule, users_in_group, token_total_supply>>)
           /\ (setup_period_status' = TRUE =>
                 UNCHANGED <<claimed_balance, address_change_request, sent>>)]_vars

\* After the close a membership exists, a claim has been paid and a
\* request is pending: calls of both phases have succeeded.
C4_Witness ==
    /\ setup_period_status = FALSE
    /\ \E a \in Addresses : user_groups[a] # <<>> /\ claimed_balance[a] > 0
    /\ \E a \in Addresses : address_change_request[a] # NoAddress

\* C5: the mint of token_total_supply is executed at most once; a second
\* call of end_setup_period fails or mints nothing.
C5_MintAtMostOnce == \A i \in 2..Len(mints) : mints[i] = 0

\* C6: token_total_supply equals the sum of total_amount over the stored
\* group schedules.
C6_SupplyConservation == token_total_supply = SumOver(LiveTotal, Groups)

\* A group has been removed while an address still lists it, and another
\* group is stored: adds and a remove have acted.
C6_Witness ==
    /\ token_total_supply > 0
    /\ \E g \in Groups, a \in Addresses :
          group_schedule[g] = <<>> /\ Contains(user_groups[a], g)

\* C7: the claimed balance of an address never decreases in a step, except
\* for the address removed by remove_user and the source address of an
\* approved address change.
C7_ClaimedMonotone ==
    [][\A a \in Addresses :
          \/ claimed_balance'[a] >= claimed_balance[a]
          \/ /\ remove_user(Storage, a).ok
             /\ StorageNext = remove_user(Storage, a).st
          \/ /\ approve_address_change(Storage, a).ok
             /\ StorageNext = approve_address_change(Storage, a).st]_vars

\* C8: an approved address change gives the target address the membership
\* list and the claimed balance the source had before the approval, leaves
\* the source without memberships and with a zero claimed balance, and
\* clears the request of the source.
C8_AddressChangeRoundTrip ==
    [][\A old \in Addresses :
          (/\ approve_address_change(Storage, old).ok
           /\ StorageNext = approve_address_change(Storage, old).st)
          => LET new == address_change_request[old]
             IN  /\ user_groups'[new] = user_groups[old]
                 /\ claimed_balance'[new] = claimed_balance[old]
                 /\ user_groups'[old] = <<>>
                 /\ claimed_balance'[old] = 0
                 /\ address_change_request'[old] = NoAddress]_vars

\* C9: a claim that immediately follows a successful claim of the same
\* caller at the same timestamp fails, transfers nothing and leaves the
\* claimed balance unchanged.
C9_SecondClaimFails ==
    \A c \in Addresses :
        claim_tokens(Storage, c).ok =>
            claim_tokens(claim_tokens(Storage, c).st, c)
                = Fail(claim_tokens(Storage, c).st)

\* An address has been paid its whole claimable amount and its next claim
\* fails, while the contract still holds tokens.
C9_Witness ==
    \E c \in Addresses :
        /\ claimed_balance[c] > 0
        /\ calculate_claimable_tokens(Storage, c).ok
        /\ calculate_claimable_tokens(Storage, c).value = claimed_balance[c]
        /\ contract_balance(Storage) > 0
        /\ ~claim_tokens(Storage, c).ok

\* C10: during setup, calling add_user_group(addr, g) twice yields the
\* state of calling it once: the list of the address contains g once and
\* the member counter of g is incremented exactly once.
C10_AddUserGroupIdempotent ==
    \A a \in Addresses, g \in Groups :
        LET once == add_user_group(Storage, a, g)
            twice == add_user_group(once.st, a, g)
        IN  once.ok =>
              /\ twice = Ok(once.st)
              /\ Occurrences(twice.st.user_groups[a], g) = 1
              /\ twice.st.users_in_group[g] =
                    IF Contains(user_groups[a], g)
                    THEN users_in_group[g]
                    ELSE users_in_group[g] + 1

\* An address is a member of two groups while the setup period is open:
\* add_user_group has taken both of its branches.
C10_Witness ==
    /\ setup_period_status = TRUE
    /\ \E a \in Addresses : Len(user_groups[a]) = 2

----------------------------------------------------------------------------
(* The accrual computation as a function of the time *)

\* The calls that decide what calculate_claimable_tokens reads: schedules,
\* member counters and membership lists.  The time is an argument of the
\* properties below, and claims do not change what the computation reads.
NextLedger ==
    \/ AddGroup
    \/ RemoveGroup
    \/ AddUserGroup
    \/ RemoveUser
    \/ EndSetupPeriod
    \/ RequestAddressChange
    \/ ApproveAddressChange

SpecLedger == Init /\ [][NextLedger]_vars

\* Elapsed times the claimable amount is computed at: every time the clock
\* of the model reaches, the next one, and a time far in the future.
ElapsedTimes == (0..(MaxElapsed + 1)) \cup {FarElapsed}

\* The storage as it is read when elapsed seconds have passed since the
\* activation.
AtElapsed(st, elapsed) ==
    [st EXCEPT !.block_timestamp = st.activation_timestamp + elapsed]

ClaimableAt(a, elapsed) ==
    calculate_claimable_tokens(AtElapsed(Storage, elapsed), a)

\* The storage of a contract with the single group "g1" of the given
\* schedule and the single member "alice", read at the given elapsed time.
OneMemberStorage(schedule, elapsed) ==
    [setup_period_status |-> FALSE,
     activation_timestamp |-> 0,
     token_total_supply |-> schedule.group_total_amount,
     group_schedule |-> [g \in Groups |->
                          IF g = "g1" THEN <<schedule>> ELSE <<>>],
     users_in_group |-> [g \in Groups |-> IF g = "g1" THEN 1 ELSE 0],
     user_groups |-> [a \in Addresses |->
                       IF a = "alice" THEN <<"g1">> ELSE <<>>],
     claimed_balance |-> [a \in Addresses |-> 0],
     address_change_request |-> [a \in Addresses |-> NoAddress],
     block_timestamp |-> elapsed,
     mints |-> <<schedule.group_total_amount>>,
     sent |-> 0,
     overflow_checks |-> FALSE]

\* C11: for a fixed storage and every address, the claimable amount is
\* non-decreasing in the time: it is defined at an earlier time whenever it
\* is defined at a later one, and it is not larger there.
C11_ClaimableMonotone ==
    \A a \in Addresses, e1 \in ElapsedTimes, e2 \in ElapsedTimes :
        e1 <= e2 =>
            /\ ClaimableAt(a, e2).ok => ClaimableAt(a, e1).ok
            /\ ClaimableAt(a, e2).ok =>
                  ClaimableAt(a, e1).value <= ClaimableAt(a, e2).value

\* The claimable amount of a member of two groups grows from period to
\* period and stays where it is once every tick has passed.
C11_Witness ==
    \E a \in Addresses :
        /\ Len(user_groups[a]) = 2
        /\ ClaimableAt(a, FarElapsed).ok
        /\ ClaimableAt(a, 0).value < ClaimableAt(a, 1).value
        /\ ClaimableAt(a, 1).value < ClaimableAt(a, 2).value
        /\ ClaimableAt(a, 2).value = ClaimableAt(a, FarElapsed).value

\* total_amount / member_count of a group, 0 for a group without schedule
\* or without counted member (a wrapped counter is above every total).
GroupShare == [g \in Groups |->
                 IF group_schedule[g] = <<>> \/ users_in_group[g] <= 0 THEN 0
                 ELSE group_schedule[g][1].group_total_amount
                        \div users_in_group[g]]

RECURSIVE SumList(_, _)
SumList(f, list) ==
    IF list = <<>> THEN 0 ELSE f[Head(list)] + SumList(f, Tail(list))

\* C12: for every address and every time, however far in the future, the
\* claimable amount is at most the sum over the groups of the address of
\* total_amount / member_count; a fixed group of total 1000, 100 per
\* period of 86400, 10 ticks and one member yields 1000 at 864000 and at
\* 2000000.
C12_ClaimableBounded ==
    /\ \A a \in Addresses, e \in ElapsedTimes :
          ClaimableAt(a, e).ok =>
              ClaimableAt(a, e).value <= SumList(GroupShare, user_groups[a])
    /\ \A e \in {864000, 2000000} :
          calculate_claimable_tokens(
              OneMemberStorage(ScheduleType(1000, TRUE, 0, 100, 86400, 10), e),
              "alice") = [ok |-> TRUE, value |-> 1000]

Min(x, y) == IF x <= y THEN x ELSE y

\* The reference formula of the claimable amount of a group.
ReferencePeriods(schedule, elapsed) ==
    Min(elapsed \div schedule.release_period, schedule.release_ticks)

ReferenceContribution(schedule, member_count, elapsed) ==
    LET periods == ReferencePeriods(schedule, elapsed)
        unlocked == IF schedule.is_fixed_amount
                    THEN periods * schedule.period_unlock_amount
                    ELSE (periods * schedule.group_total_amount
                            * schedule.group_unlock_percent) \div 100
    IN  IF periods = 0 THEN 0
        ELSE IF member_count < 0 THEN 0
        ELSE unlocked \div member_count

RECURSIVE ReferenceClaimable(_, _)
ReferenceClaimable(list, elapsed) ==
    IF list = <<>> THEN 0
    ELSE ReferenceContribution(group_schedule[Head(list)][1],
                               users_in_group[Head(list)], elapsed)
           + ReferenceClaimable(Tail(list), elapsed)

\* C13: wherever the claimable amount is defined it equals the reference
\* formula: periods = min(floor(elapsed / release_period), release_ticks),
\* every group adds 0 for no period, floor(periods * period_unlock_amount /
\* member_count) when fixed and floor(floor(periods * total_amount *
\* unlock_percent / 100) / member_count) otherwise; a group of total 500,
\* 25 percent, 4 ticks and one member yields 250 after 2 periods.
C13_ClaimableIsReference ==
    /\ \A a \in Addresses, e \in ElapsedTimes :
          ClaimableAt(a, e).ok =>
              ClaimableAt(a, e).value = ReferenceClaimable(user_groups[a], e)
    /\ calculate_claimable_tokens(
          OneMemberStorage(ScheduleType(500, FALSE, 25, 0, 1, 4), 2),
          "alice") = [ok |-> TRUE, value |-> 250]

\* An address is the only counted member of a percentage group whose
\* first period releases a truncated amount, and two addresses share a
\* fixed group.
C13_Witness ==
    /\ \E a \in Addresses, g \in Groups :
          /\ Contains(user_groups[a], g)
          /\ group_schedule[g] # <<>>
          /\ ~group_schedule[g][1].is_fixed_amount
          /\ users_in_group[g] = 1
          /\ ClaimableAt(a, 1).ok
          /\ ClaimableAt(a, 1).value > 0
    /\ \E g \in Groups :
          /\ group_schedule[g] # <<>>
          /\ group_schedule[g][1].is_fixed_amount
          /\ users_in_group[g] = 2

----------------------------------------------------------------------------
(* Schedules, member counters and address changes *)

StoredSchedules == {group_schedule[g][1] : g \in {h \in Groups : group_schedule[h] # <<>>}}

\* The consistency of a schedule, in exact integers.
ScheduleIsConsistent(schedule) ==
    /\ schedule.release_ticks > 0
    /\ schedule.group_total_amount > 0
    /\ schedule.is_fixed_amount =>
          BigUintProductIs(schedule.period_unlock_amount,
                           schedule.release_ticks,
                           schedule.group_total_amount)
    /\ ~schedule.is_fixed_amount =>
          /\ U64Hi(schedule.release_ticks) = 0
          /\ schedule.group_unlock_percent * schedule.release_ticks = 100

\* C14: every stored schedule has release_ticks > 0, total_amount > 0 and,
\* as exact integers, period_unlock_amount * release_ticks = total_amount
\* when fixed and unlock_percent * release_ticks = 100 otherwise; add_group
\* with an existing identifier or with a schedule that violates one of
\* these fails and leaves the storage unchanged.
C14_SchedulesConsistent ==
    /\ [](\A schedule \in StoredSchedules : ScheduleIsConsistent(schedule))
    /\ [][\A g \in Groups, schedule \in ScheduleInputs :
             (group_schedule[g] # <<>> \/ ~ScheduleIsConsistent(schedule)) =>
                 ~(/\ add_group(Storage, g, schedule).ok
                   /\ StorageNext = add_group(Storage, g, schedule).st)]_vars

\* C15: every stored schedule has release_period > 0.
C15_ReleasePeriodPositive ==
    \A schedule \in StoredSchedules : schedule.release_period > 0

MembersOf(g) == {a \in Addresses : Contains(user_groups[a], g)}

\* C16: for every group with a stored schedule, users_in_group equals the
\* number of addresses whose membership list contains the group.
C16_MemberCounter ==
    \A g \in Groups :
        group_schedule[g] # <<>> =>
            users_in_group[g] = Cardinality(MembersOf(g))

IsLive(g) == group_schedule[g] # <<>>

\* C17: for an address that lists a removed group, the claimable amount is
\* still computed, by calculate_claimable_tokens and by
\* verify_claimable_tokens: the removed group adds zero and the other
\* groups of the address add what they add without it.
C17_DanglingTolerated ==
    \A a \in Addresses :
        LET live == SelectSeq(user_groups[a], IsLive)
        IN  (live # user_groups[a] /\ claimable_of_groups(Storage, live).ok) =>
              /\ calculate_claimable_tokens(Storage, a)
                    = claimable_of_groups(Storage, live)
              /\ verify_claimable_tokens(Storage, a).ok

\* C18: while the setup period is open, remove_user succeeds for every
\* address with a membership: the counter of every group in its list goes
\* down by exactly one and not below zero, the other counters stay, and
\* the memberships and the claimed balance of the address are cleared; it
\* fails without a state change for an address without membership.
C18_RemoveUserSucceeds ==
    setup_period_status = TRUE =>
        \A a \in Addresses :
            IF user_groups[a] = <<>>
            THEN remove_user(Storage, a) = Fail(Storage)
            ELSE /\ remove_user(Storage, a).ok
                 /\ \A g \in Groups :
                       /\ remove_user(Storage, a).st.users_in_group[g] >= 0
                       /\ remove_user(Storage, a).st.users_in_group[g] =
                             IF Contains(user_groups[a], g)
                             THEN users_in_group[g] - 1
                             ELSE users_in_group[g]
                 /\ remove_user(Storage, a).st.user_groups[a] = <<>>
                 /\ remove_user(Storage, a).st.claimed_balance[a] = 0

\* C19: end_setup_period fails without a state change when the contract
\* lacks the Mint or the Burn role; with both roles it closes the setup
\* period, mints exactly token_total_supply and changes nothing else.
C19_EndSetupAtomic ==
    \A roles \in SUBSET Roles :
        IF {"Mint", "Burn"} \subseteq roles
        THEN end_setup_period(Storage, roles) =
               Ok([Storage EXCEPT !.setup_period_status = FALSE,
                                  !.mints = Append(@, token_total_supply)])
        ELSE end_setup_period(Storage, roles) = Fail(Storage)

\* The setup period has been closed by one call that minted the positive
\* supply.
C19_Witness ==
    /\ setup_period_status = FALSE
    /\ token_total_supply > 0
    /\ mints = <<token_total_supply>>

MembershipPairs == SumOver([a \in Addresses |-> Len(user_groups[a])], Addresses)
ClaimedTotal == SumOver(claimed_balance, Addresses)
MembershipPairsNext == MembershipPairs'
ClaimedTotalNext == ClaimedTotal'

\* C20: an approved address change touches only the records of the source
\* and of the target, and keeps the number of (address, group) membership
\* pairs and the sum of the claimed balances.
C20_ApprovalConserves ==
    [][\A old \in Addresses :
          (/\ approve_address_change(Storage, old).ok
           /\ StorageNext = approve_address_change(Storage, old).st)
          => /\ MembershipPairsNext = MembershipPairs
             /\ ClaimedTotalNext = ClaimedTotal
             /\ \A other \in Addresses \ {old, address_change_request[old]} :
                   /\ user_groups'[other] = user_groups[other]
                   /\ claimed_balance'[other] = claimed_balance[other]
                   /\ address_change_request'[other]
                         = address_change_request[other]]_vars

====
